---- MODULE Spec2Model ----
(***************************************************************************)
(* The download-orchestration core of music_downloader/core/downloader.py: *)
(* DownloadJob (cooperative pause/cancel flags), DownloadManager (job map, *)
(* pending queue, running set, concurrency limit), the queue processor     *)
(* thread, and the job runner with its retry loop.                         *)
(*                                                                         *)
(* Threads: the Qt main thread (every caller of the Manager is a UI slot), *)
(* the queue processor thread, one pool thread per dispatched runnable.    *)
(* Each `with self._lock:` block is one atomic action; what a thread does  *)
(* between two blocking or shared-memory steps is folded into one action.  *)
(* The signals a step emits (status, progress, done, error) are its `out`.  *)
(***************************************************************************)
EXTENDS Integers, Sequences, FiniteSets, TLC

\* ---------------------------------------------------------------- bounds
\* Jobs the caller creates.
NumJobs == 2
\* Appends to the pending queue over a behaviour (submit, resume, retry).
MaxAppends == 2
\* Largest concurrency limit the caller configures.
MaxConc == 2
\* pause/resume/cancel/set_concurrency calls over a behaviour.
MaxCalls == 2
\* Exceptions the pipeline raises (out of extract_info) over a behaviour of Spec.
MaxFailures == 1
\* Clock ticks over a behaviour, where the clock runs.
MaxTicks == 3

\* ------------------------------------------------------ program constants
\* DownloadJob.max_retries
max_retries == 3

\* _on_hook: the throttle interval, `< 0.25`, in clock ticks of 0.125 s
Throttle == 2

JobIds == 1..NumJobs

VARIABLES
    jobs,            \* DownloadManager._jobs: ids of the jobs created
    submitted,       \* jobs the caller has passed to submit() (enqueue_download)
    pause_flag,      \* DownloadJob._pause, per job
    cancel_flag,     \* DownloadJob._cancel, per job
    has_failed,      \* EnhancedDownloadRow._has_failed, per job
    pending_jobs,    \* DownloadManager._pending_jobs
    active_threads,  \* DownloadManager._active_threads: job id -> runnable (0: no key)
    concurrent,      \* DownloadManager._concurrent
    queue_event,     \* DownloadManager._queue_event
    sched,           \* the queue processor thread: its position and job_to_start
    ui,              \* the Qt main thread: its position inside submit()/resume()
    runs,            \* every DownloadRunnable created, in creation order
    appended,        \* history: every append to _pending_jobs, in order, and its caller
    calls,           \* history: pause/resume/cancel/set_concurrency calls made
    failures,        \* history: exceptions the pipeline has raised
    job_url,         \* DownloadJob.url, per job ("": None)
    now,             \* time.time(), in ticks
    last_progress_time,  \* DownloadJob._last_progress_time, per job
    last_emit,       \* history: when sig_progress was last emitted, per job (-1: never)
    out,             \* the notifications the last step emitted, in order
    download_dir,    \* DownloadManager._download_dir
    outdir,          \* DownloadJob.outdir, per job ("": no such job)
    locked           \* the thread that held DownloadManager._lock in the last step
                     \* ("main", "queue", "pool"; "": the step took no lock)

vars == <<jobs, submitted, pause_flag, cancel_flag, has_failed, pending_jobs,
          active_threads, concurrent, queue_event, sched, ui, runs, appended,
          calls, failures, job_url, now, last_progress_time, last_emit, out,
          download_dir, outdir, locked>>

\* ------------------------------------------------------------- error text
\* The pipeline's failures, by message (str(e)).
Errors == {"HTTP Error 503", "Connection reset", "Unsupported URL"}

UpperAlphabet == "ABCDEFGHIJKLMNOPQRSTUVWXYZ"
LowerAlphabet == "abcdefghijklmnopqrstuvwxyz"

\* str.lower() of one character
LowerChar(c) ==
    IF \E i \in 1..Len(UpperAlphabet) : SubSeq(UpperAlphabet, i, i) = c
    THEN LET i == CHOOSE k \in 1..Len(UpperAlphabet) : SubSeq(UpperAlphabet, k, k) = c
         IN  SubSeq(LowerAlphabet, i, i)
    ELSE c

RECURSIVE Lower(_)
\* str.lower()
Lower(s) ==
    IF Len(s) = 0 THEN s
    ELSE LowerChar(SubSeq(s, 1, 1)) \o Lower(SubSeq(s, 2, Len(s)))

\* `keyword in text`: substring containment
Contains(keyword, text) ==
    \E i \in 1..(Len(text) - Len(keyword) + 1) :
        SubSeq(text, i, i + Len(keyword) - 1) = keyword

\* _run_job: the retryable keywords
RetryKeywords == {"timeout", "connection", "network", "unavailable",
                  "temporary", "throttled", "503", "502", "429"}

\* _run_job: is_retryable
IsRetryable(e) == \E keyword \in RetryKeywords : Contains(keyword, Lower(e))

\* _on_hook: the exception it raises on a cancel
UserCanceled == "User canceled"

\* a handler that re-raises whatever it catches
HookReraisesAll(e) == TRUE

\* _on_hook: `if "canceled" in str(e).lower(): raise`
HookReraises(e) == Contains("canceled", Lower(e))

\* _on_hook: whether the exception it raises on a cancel leaves the hook
CancelPropagates == HookReraises(UserCanceled)

\* str(e) of the exceptions the body of _on_hook can raise besides the
\* cancellation: int(seconds) in _fmt_eta for an eta of inf or nan
HookErrors == {"cannot convert float infinity to integer",
               "cannot convert float NaN to integer"}

\* _on_hook: which of these its handler re-raises
HookErrorPropagates == [e \in HookErrors |-> HookReraises(e)]

\* is_retryable of every exception raised below _run_job
RetryableOf == [e \in Errors \cup HookErrors \cup {UserCanceled} |-> IsRetryable(e)]

\* _run_job: the message of the error it emits for a cancelled job
CanceledByUser == "Canceled by user"

\* ------------------------------------------------------------------ state
\* a maximum that is its second argument
MaxSecond(a, b) == b

Max(a, b) == IF a >= b THEN a ELSE b

RunIds == 1..Len(runs)

\* keys of _active_threads
ActiveIds == {j \in JobIds : active_threads[j] # 0}

\* a DownloadRunnable and the locals of the _run_job call it makes; nExec, nDone,
\* nErr and msg record the calls of _execute_download and the terminal
\* notifications of the run
NewRun(j) ==
    [job |-> j, pc |-> "queued", attempt |-> 0, nExec |-> 0, conv |-> FALSE,
     last_error |-> "", nDone |-> 0, nErr |-> 0, msg |-> ""]

\* DownloadManager.__init__
Init ==
    /\ jobs = {}
    /\ submitted = {}
    /\ pause_flag = [j \in JobIds |-> FALSE]
    /\ cancel_flag = [j \in JobIds |-> FALSE]
    /\ has_failed = [j \in JobIds |-> FALSE]
    /\ pending_jobs = <<>>
    /\ active_threads = [j \in JobIds |-> 0]
    /\ concurrent \in 1..MaxConc
    /\ queue_event = FALSE
    /\ sched = [pc |-> "check", job |-> 0]
    /\ ui = [pc |-> "idle", job |-> 0]
    /\ runs = <<>>
    /\ appended = <<>>
    /\ calls = 0
    /\ failures = 0
    /\ job_url = [j \in JobIds |-> ""]
    /\ now = 2 * Throttle
    /\ last_progress_time = [j \in JobIds |-> 0]
    /\ last_emit = [j \in JobIds |-> -1]
    /\ out = <<>>
    /\ download_dir = "dir0"
    /\ outdir = [j \in JobIds |-> ""]
    /\ locked = ""

\* ---------------------------------------------------------- notifications
\* job.sig_status.emit(text)
Status(j, text) == [job |-> j, sig |-> "status", val |-> text]

\* job.sig_progress.emit(pct, speed, eta, size), its percentage
Progress(j, pct) == [job |-> j, sig |-> "progress", pct |-> pct]

\* job.sig_done.emit(path)
Done(j) == [job |-> j, sig |-> "done", val |-> "final_path"]

\* job.sig_error.emit(text)
Error(j, text) == [job |-> j, sig |-> "error", val |-> text]

\* ------------------------------------------------------ the caller's calls
\* the `item` dicts callers pass to create_job: each key a URL or absent ("")
Items == [webpage_url : {"", "https://w"}, url : {"", "https://u"}]

\* the items of a search result that carry their webpage_url
ItemsWithUrl == {item \in Items : item.webpage_url # "" /\ item.url = ""}

\* create_job: `item.get("webpage_url") or item.get("url")`
ItemUrl(item) == IF item.webpage_url # "" THEN item.webpage_url ELSE item.url

UiIdle == [pc |-> "idle", job |-> 0]

\* DownloadManager.create_job
CreateJob(item) ==
    /\ ui.pc = "idle"
    /\ Cardinality(jobs) < NumJobs
    /\ jobs' = jobs \cup {Cardinality(jobs) + 1}
    /\ job_url' = [job_url EXCEPT ![Cardinality(jobs) + 1] = ItemUrl(item)]
    /\ outdir' = [outdir EXCEPT ![Cardinality(jobs) + 1] = download_dir]
    /\ out' = <<>>
    /\ locked' = "main"
    /\ UNCHANGED <<submitted, pause_flag, cancel_flag, has_failed, pending_jobs,
                   active_threads, concurrent, queue_event, sched, ui, runs, appended,
                   calls, failures, now, last_progress_time, last_emit, download_dir>>

\* submit(): `with self._lock: self._pending_jobs.append(job)`
AppendPending(j, caller) ==
    /\ pending_jobs' = Append(pending_jobs, j)
    /\ appended' = Append(appended, [job |-> j, by |-> caller])
    /\ ui' = [pc |-> "set", job |-> j]

\* DownloadManager.submit, as enqueue_download calls it: once per job
Submit(j) ==
    /\ ui.pc = "idle"
    /\ j \in jobs \ submitted
    /\ Len(appended) < MaxAppends
    /\ submitted' = submitted \cup {j}
    /\ AppendPending(j, "submit")
    /\ out' = <<>>
    /\ locked' = "main"
    /\ UNCHANGED <<jobs, pause_flag, cancel_flag, has_failed, active_threads, concurrent,
                   queue_event, sched, runs, calls, failures, job_url, now,
                   last_progress_time, last_emit, download_dir, outdir>>

\* a submit() that returns without setting the wake signal
SubmitNoSetEvent ==
    /\ ui.pc = "set"
    /\ ui' = UiIdle
    /\ out' = <<>>
    /\ locked' = ""
    /\ UNCHANGED <<jobs, submitted, pause_flag, cancel_flag, has_failed, pending_jobs,
                   active_threads, concurrent, queue_event, sched, runs, appended, calls,
                   failures, job_url, now, last_progress_time, last_emit, download_dir,
                   outdir>>

\* submit(): `self._queue_event.set()`, the call's last step
SubmitSetEvent ==
    /\ ui.pc = "set"
    /\ queue_event' = TRUE
    /\ ui' = UiIdle
    /\ out' = IF appended[Len(appended)].by = "resume"
              THEN <<Status(ui.job, "Resumed")>>     \* resume(), after its submit()
              ELSE <<>>
    /\ locked' = ""
    /\ UNCHANGED <<jobs, submitted, pause_flag, cancel_flag, has_failed, pending_jobs,
                   active_threads, concurrent, sched, runs, appended, calls, failures,
                   job_url, now, last_progress_time, last_emit, download_dir, outdir>>

\* DownloadManager.pause
Pause(j) ==
    /\ ui.pc = "idle"
    /\ calls < MaxCalls
    /\ calls' = calls + 1
    /\ IF j \in jobs
       THEN /\ pause_flag' = [pause_flag EXCEPT ![j] = TRUE]
            /\ out' = <<Status(j, "Paused")>>
       ELSE /\ pause_flag' = pause_flag
            /\ out' = <<>>
    /\ locked' = ""
    /\ UNCHANGED <<jobs, submitted, cancel_flag, has_failed, pending_jobs,
                   active_threads, concurrent, queue_event, sched, ui, runs, appended,
                   failures, job_url, now, last_progress_time, last_emit, download_dir,
                   outdir>>

\* a resume that resubmits whenever the job was paused
ResumeResubmitsPaused(j) == pause_flag[j]

\* resume(): `was_paused and job.id not in self._active_threads`
ResumeResubmits(j) == pause_flag[j] /\ active_threads[j] = 0

\* DownloadManager.resume, up to its call of submit()
Resume(j) ==
    /\ ui.pc = "idle"
    /\ calls < MaxCalls
    /\ calls' = calls + 1
    /\ IF j \notin jobs
       THEN /\ pause_flag' = pause_flag
            /\ ui' = ui
            /\ out' = <<>>
       ELSE /\ pause_flag' = [pause_flag EXCEPT ![j] = FALSE]
            /\ IF ResumeResubmits(j)
               THEN /\ Len(appended) < MaxAppends
                    /\ ui' = [pc |-> "append", job |-> j]
                    /\ out' = <<>>
               ELSE /\ ui' = ui
                    /\ out' = <<Status(j, "Resumed")>>
    /\ locked' = ""
    /\ UNCHANGED <<jobs, submitted, cancel_flag, has_failed, pending_jobs,
                   active_threads, concurrent, queue_event, sched, runs, appended,
                   failures, job_url, now, last_progress_time, last_emit, download_dir,
                   outdir>>

\* resume(): the append of the submit() it calls
ResumeAppend ==
    /\ ui.pc = "append"
    /\ AppendPending(ui.job, "resume")
    /\ out' = <<>>
    /\ locked' = "main"
    /\ UNCHANGED <<jobs, submitted, pause_flag, cancel_flag, has_failed, active_threads,
                   concurrent, queue_event, sched, runs, calls, failures, job_url, now,
                   last_progress_time, last_emit, download_dir, outdir>>

\* a cancel that takes the job out of the pending queue
CancelDequeues(j) ==
    /\ ui.pc = "idle"
    /\ j \in jobs
    /\ calls < MaxCalls
    /\ calls' = calls + 1
    /\ cancel_flag' = [cancel_flag EXCEPT ![j] = TRUE]
    /\ pending_jobs' = SelectSeq(pending_jobs, LAMBDA x : x # j)
    /\ out' = <<Status(j, "Canceled")>>
    /\ locked' = ""
    /\ UNCHANGED <<jobs, submitted, pause_flag, has_failed, active_threads, concurrent,
                   queue_event, sched, ui, runs, appended, failures, job_url, now,
                   last_progress_time, last_emit, download_dir, outdir>>

\* DownloadManager.cancel
Cancel(j) ==
    /\ ui.pc = "idle"
    /\ calls < MaxCalls
    /\ calls' = calls + 1
    /\ IF j \in jobs
       THEN /\ cancel_flag' = [cancel_flag EXCEPT ![j] = TRUE]
            /\ out' = <<Status(j, "Canceled")>>
       ELSE /\ cancel_flag' = cancel_flag
            /\ out' = <<>>
    /\ locked' = ""
    /\ UNCHANGED <<jobs, submitted, pause_flag, has_failed, pending_jobs, active_threads,
                   concurrent, queue_event, sched, ui, runs, appended, failures, job_url,
                   now, last_progress_time, last_emit, download_dir, outdir>>

\* EnhancedDownloadRow._on_retry
Retry(j) ==
    /\ ui.pc = "idle"
    /\ has_failed[j]
    /\ Len(appended) < MaxAppends
    /\ has_failed' = [has_failed EXCEPT ![j] = FALSE]
    /\ AppendPending(j, "retry")
    /\ out' = <<>>
    /\ locked' = "main"
    /\ UNCHANGED <<jobs, submitted, pause_flag, cancel_flag, active_threads, concurrent,
                   queue_event, sched, runs, calls, failures, job_url, now,
                   last_progress_time, last_emit, download_dir, outdir>>

\* DownloadManager.set_concurrency
SetConcurrency(n) ==
    /\ ui.pc = "idle"
    /\ calls < MaxCalls
    /\ calls' = calls + 1
    /\ concurrent' = Max(1, n)
    /\ out' = <<>>
    /\ locked' = "main"
    /\ UNCHANGED <<jobs, submitted, pause_flag, cancel_flag, has_failed, pending_jobs,
                   active_threads, queue_event, sched, ui, runs, appended, failures,
                   job_url, now, last_progress_time, last_emit, download_dir, outdir>>

\* the directories the caller configures
Paths == {"dir0", "dir1"}

\* DownloadManager.set_download_dir
SetDownloadDir(path) ==
    /\ ui.pc = "idle"
    /\ calls < MaxCalls
    /\ calls' = calls + 1
    /\ download_dir' = path
    /\ out' = <<>>
    /\ locked' = "main"
    /\ UNCHANGED <<jobs, submitted, pause_flag, cancel_flag, has_failed, pending_jobs,
                   active_threads, concurrent, queue_event, sched, ui, runs, appended,
                   failures, job_url, now, last_progress_time, last_emit, outdir>>

\* an admission test that lets one job too many in
CanAdmitOffByOne == Cardinality(ActiveIds) <= concurrent /\ pending_jobs # <<>>

\* jobs with a callback blocked in the pause loop of _on_hook
PausedJobs == {runs[r].job : r \in {k \in RunIds : runs[k].pc = "paused"}}

\* an admission test that does not count the paused jobs
CanAdmitSkipsPaused ==
    Cardinality(ActiveIds \ PausedJobs) < concurrent /\ pending_jobs # <<>>

\* ------------------------------------------------------ the queue processor
\* process_queue: the admission test
CanAdmit == Cardinality(ActiveIds) < concurrent /\ pending_jobs # <<>>

\* a queue processor that pops the tail of the pending list
PopIndexLast == Len(pending_jobs)

\* process_queue: the index `self._pending_jobs.pop(0)` pops, counted from 1
PopIndex == 1

\* process_queue: the locked block, when it pops a job
SchedPop ==
    /\ sched.pc = "check"
    /\ CanAdmit
    /\ sched' = [pc |-> "start", job |-> pending_jobs[PopIndex]]
    /\ pending_jobs' = [i \in 1..(Len(pending_jobs) - 1) |->
                           IF i < PopIndex THEN pending_jobs[i] ELSE pending_jobs[i + 1]]
    /\ out' = <<>>
    /\ locked' = "queue"
    /\ UNCHANGED <<jobs, submitted, pause_flag, cancel_flag, has_failed, active_threads,
                   concurrent, queue_event, ui, runs, appended, calls, failures, job_url,
                   now, last_progress_time, last_emit, download_dir, outdir>>

\* process_queue: the locked block, when it pops nothing
SchedNothing ==
    /\ sched.pc = "check"
    /\ ~CanAdmit
    /\ sched' = [pc |-> "wait", job |-> 0]
    /\ out' = <<>>
    /\ locked' = "queue"
    /\ UNCHANGED <<jobs, submitted, pause_flag, cancel_flag, has_failed, pending_jobs,
                   active_threads, concurrent, queue_event, ui, runs, appended, calls,
                   failures, job_url, now, last_progress_time, last_emit, download_dir,
                   outdir>>

\* _start_job: record the runnable under the lock, hand it to the thread pool
SchedStartJob ==
    /\ sched.pc = "start"
    /\ runs' = Append(runs, NewRun(sched.job))
    /\ active_threads' = [active_threads EXCEPT ![sched.job] = Len(runs) + 1]
    /\ sched' = [pc |-> "check", job |-> 0]
    /\ out' = <<>>
    /\ locked' = "queue"
    /\ UNCHANGED <<jobs, submitted, pause_flag, cancel_flag, has_failed, pending_jobs,
                   concurrent, queue_event, ui, appended, calls, failures, job_url, now,
                   last_progress_time, last_emit, download_dir, outdir>>

\* process_queue: `self._queue_event.wait(timeout=0.5)` returns, the event set
SchedWaitSignalled ==
    /\ sched.pc = "wait"
    /\ queue_event
    /\ sched' = [pc |-> "clear", job |-> 0]
    /\ out' = <<>>
    /\ locked' = ""
    /\ UNCHANGED <<jobs, submitted, pause_flag, cancel_flag, has_failed, pending_jobs,
                   active_threads, concurrent, queue_event, ui, runs, appended, calls,
                   failures, job_url, now, last_progress_time, last_emit, download_dir,
                   outdir>>

\* a wait that has no timeout: it returns only when the event is set
SchedWaitNoTimeout ==
    /\ sched.pc = "wait"
    /\ queue_event
    /\ sched' = [pc |-> "clear", job |-> 0]
    /\ out' = <<>>
    /\ locked' = ""
    /\ UNCHANGED <<jobs, submitted, pause_flag, cancel_flag, has_failed, pending_jobs,
                   active_threads, concurrent, queue_event, ui, runs, appended, calls,
                   failures, job_url, now, last_progress_time, last_emit, download_dir,
                   outdir>>

\* process_queue: `self._queue_event.wait(timeout=0.5)` times out
SchedWaitTimeout ==
    /\ sched.pc = "wait"
    /\ ~queue_event
    /\ sched' = [pc |-> "clear", job |-> 0]
    /\ out' = <<>>
    /\ locked' = ""
    /\ UNCHANGED <<jobs, submitted, pause_flag, cancel_flag, has_failed, pending_jobs,
                   active_threads, concurrent, queue_event, ui, runs, appended, calls,
                   failures, job_url, now, last_progress_time, last_emit, download_dir,
                   outdir>>

\* process_queue: `self._queue_event.clear()`
SchedClear ==
    /\ sched.pc = "clear"
    /\ queue_event' = FALSE
    /\ sched' = [pc |-> "check", job |-> 0]
    /\ out' = <<>>
    /\ locked' = ""
    /\ UNCHANGED <<jobs, submitted, pause_flag, cancel_flag, has_failed, pending_jobs,
                   active_threads, concurrent, ui, runs, appended, calls, failures,
                   job_url, now, last_progress_time, last_emit, download_dir, outdir>>

\* a loop exit taken one attempt early
BreaksLoopEarly(e, attempt) == ~RetryableOf[e] \/ attempt >= max_retries - 2

\* a loop exit that does not look at the kind of the error
BreaksLoopIgnoresKind(e, attempt) == attempt >= max_retries - 1

\* ------------------------------------------------------------ the job runner
\* _run_job: `if not is_retryable or attempt >= job.max_retries - 1: break`
BreaksLoop(e, attempt) == ~RetryableOf[e] \/ attempt >= max_retries - 1

\* sig_error.emit(m) with last_error = e, and the row's _on_error slot
EmitError(r, e, m, pre) ==
    /\ runs' = [runs EXCEPT ![r].last_error = e, ![r].nErr = @ + 1, ![r].msg = m,
                            ![r].pc = "finally"]
    /\ has_failed' = [has_failed EXCEPT ![runs[r].job] = TRUE]
    /\ out' = pre \o <<Error(runs[r].job, m)>>

\* _run_job: `except Exception as e:`, the rest of `for attempt in range(...)`
\* up to the backoff sleep, and what follows the loop; pre is what the step has
\* emitted before the exception
Handle(r, e, pre) ==
    IF cancel_flag[runs[r].job]
    THEN EmitError(r, e, CanceledByUser, pre)
    ELSE IF BreaksLoop(e, runs[r].attempt) \/ runs[r].attempt + 1 >= max_retries
    THEN EmitError(r, e, e, pre)
    ELSE /\ runs' = [runs EXCEPT ![r].last_error = e, ![r].attempt = @ + 1,
                                 ![r].pc = "backoff"]
         /\ out' = pre \o <<Status(runs[r].job, "Retrying")>>
         /\ UNCHANGED has_failed

\* a total that ignores the estimate
TotalBytesOnly(d) == d.total_bytes

\* _on_hook: `d.get("total_bytes") or d.get("total_bytes_estimate") or 0`
Total(d) == IF d.total_bytes # 0 THEN d.total_bytes ELSE d.total_bytes_estimate

\* _on_hook: `int(downloaded * 100 / total) if total else 0`
Pct(d) == IF Total(d) # 0 THEN (d.downloaded_bytes * 100) \div Total(d) ELSE 0

\* _on_hook: `current_time - job._last_progress_time < 0.25`
Throttled(j) == now - last_progress_time[j] < Throttle

\* _on_hook: what it does with the event d once past the pause loop
HookEvent(r, d) ==
    IF d.status = "downloading" /\ ~Throttled(runs[r].job)
    THEN /\ runs' = [runs EXCEPT ![r].pc = "exec"]
         /\ last_progress_time' = [last_progress_time EXCEPT ![runs[r].job] = now]
         /\ last_emit' = [last_emit EXCEPT ![runs[r].job] = now]
         /\ out' = <<Progress(runs[r].job, Pct(d))>>
    ELSE /\ runs' = [runs EXCEPT ![r].pc = "exec",
                                 ![r].conv = IF d.status = "finished" THEN TRUE ELSE @]
         /\ out' = IF d.status = "finished"
                   THEN <<Status(runs[r].job, "Converting...")>>
                   ELSE <<>>
         /\ UNCHANGED <<last_progress_time, last_emit>>

\* _run_job up to the first call of _execute_download
RunStart(r) ==
    /\ runs[r].pc = "queued"
    /\ runs' = [runs EXCEPT ![r].pc = "exec", ![r].nExec = 1]
    /\ last_emit' = [last_emit EXCEPT ![runs[r].job] = now]
    /\ out' = <<Status(runs[r].job, "Starting..."), Progress(runs[r].job, 0)>>
    /\ locked' = ""
    /\ UNCHANGED <<jobs, submitted, pause_flag, cancel_flag, has_failed, pending_jobs,
                   active_threads, concurrent, queue_event, sched, ui, appended, calls,
                   failures, job_url, now, last_progress_time, download_dir, outdir>>

\* the pipeline calls _on_hook(job, d)
HookCall(r, d) ==
    /\ runs[r].pc = "exec"
    /\ IF cancel_flag[runs[r].job]
       THEN /\ IF CancelPropagates
               THEN Handle(r, UserCanceled, <<>>)
               ELSE UNCHANGED <<runs, has_failed>> /\ out' = <<>>
            /\ UNCHANGED <<last_progress_time, last_emit>>
       ELSE IF pause_flag[runs[r].job]
       THEN /\ runs' = [runs EXCEPT ![r].pc = "paused"]
            /\ out' = <<Status(runs[r].job, "Paused...")>>
            /\ UNCHANGED <<has_failed, last_progress_time, last_emit>>
       ELSE /\ HookEvent(r, d)
            /\ UNCHANGED has_failed
    /\ locked' = ""
    /\ UNCHANGED <<jobs, submitted, pause_flag, cancel_flag, pending_jobs,
                   active_threads, concurrent, queue_event, sched, ui, appended, calls,
                   failures, job_url, now, download_dir, outdir>>

\* a pause loop that ends after one wait, whatever the flag
PausePollOnce(r, d) ==
    /\ runs[r].pc = "paused"
    /\ HookEvent(r, d)
    /\ locked' = ""
    /\ UNCHANGED <<jobs, submitted, pause_flag, cancel_flag, has_failed, pending_jobs,
                   active_threads, concurrent, queue_event, sched, ui, appended, calls,
                   failures, job_url, now, download_dir, outdir>>

\* a pause loop that does not test the cancel flag
PausePollNoCancel(r, d) ==
    /\ runs[r].pc = "paused"
    /\ IF ~pause_flag[runs[r].job]
       THEN /\ HookEvent(r, d)
            /\ UNCHANGED has_failed
       ELSE /\ UNCHANGED <<runs, has_failed, last_progress_time, last_emit>>
            /\ out' = <<Status(runs[r].job, "Paused...")>>
    /\ locked' = ""
    /\ UNCHANGED <<jobs, submitted, pause_flag, cancel_flag, pending_jobs,
                   active_threads, concurrent, queue_event, sched, ui, appended, calls,
                   failures, job_url, now, download_dir, outdir>>

\* _on_hook: one turn of `while job.is_paused:` after the 0.25 s wait; d is the
\* event the hook was called with
PausePoll(r, d) ==
    /\ runs[r].pc = "paused"
    /\ IF ~pause_flag[runs[r].job]
       THEN /\ HookEvent(r, d)
            /\ UNCHANGED has_failed
       ELSE /\ IF cancel_flag[runs[r].job] /\ CancelPropagates
               THEN Handle(r, UserCanceled, <<Status(runs[r].job, "Paused...")>>)
               ELSE /\ UNCHANGED <<runs, has_failed>>
                    /\ out' = <<Status(runs[r].job, "Paused...")>>
            /\ UNCHANGED <<last_progress_time, last_emit>>
    /\ locked' = ""
    /\ UNCHANGED <<jobs, submitted, pause_flag, cancel_flag, pending_jobs,
                   active_threads, concurrent, queue_event, sched, ui, appended, calls,
                   failures, job_url, now, download_dir, outdir>>

\* _on_hook: a "downloading" event past the throttle whose formatting raises e
\* after `job._last_progress_time = current_time` and before the emit; `except
\* Exception as e` re-raises it into the pipeline or prints it and returns d
HookError(r, e) ==
    /\ runs[r].pc = "exec"
    /\ ~cancel_flag[runs[r].job]
    /\ ~pause_flag[runs[r].job]
    /\ ~Throttled(runs[r].job)
    /\ last_progress_time' = [last_progress_time EXCEPT ![runs[r].job] = now]
    /\ IF HookErrorPropagates[e]
       THEN Handle(r, e, <<>>)
       ELSE UNCHANGED <<runs, has_failed>> /\ out' = <<>>
    /\ locked' = ""
    /\ UNCHANGED <<jobs, submitted, pause_flag, cancel_flag, pending_jobs,
                   active_threads, concurrent, queue_event, sched, ui, appended, calls,
                   failures, job_url, now, last_emit, download_dir, outdir>>

\* the pipeline raises e out of _execute_download
PipelineFails(r, e) ==
    /\ runs[r].pc = "exec"
    /\ failures' = failures + 1
    /\ Handle(r, e, <<>>)
    /\ locked' = ""
    /\ UNCHANGED <<jobs, submitted, pause_flag, cancel_flag, pending_jobs,
                   active_threads, concurrent, queue_event, sched, ui, appended, calls,
                   job_url, now, last_progress_time, last_emit, download_dir, outdir>>

\* a pipeline that emits sig_done and does not return
PipelineSucceedsNoReturn(r) ==
    /\ runs[r].pc = "exec"
    /\ runs[r].conv
    /\ runs' = [runs EXCEPT ![r].nDone = @ + 1]
    /\ out' = <<Done(runs[r].job)>>
    /\ locked' = ""
    /\ UNCHANGED <<jobs, submitted, pause_flag, cancel_flag, has_failed, pending_jobs,
                   active_threads, concurrent, queue_event, sched, ui, appended, calls,
                   failures, job_url, now, last_progress_time, last_emit, download_dir,
                   outdir>>

\* the pipeline returns after its "finished" event: _execute_download emits
\* sig_done, _run_job returns
PipelineSucceeds(r) ==
    /\ runs[r].pc = "exec"
    /\ runs[r].conv
    /\ runs' = [runs EXCEPT ![r].nDone = @ + 1, ![r].pc = "finally"]
    /\ out' = <<Done(runs[r].job)>>
    /\ locked' = ""
    /\ UNCHANGED <<jobs, submitted, pause_flag, cancel_flag, has_failed, pending_jobs,
                   active_threads, concurrent, queue_event, sched, ui, appended, calls,
                   failures, job_url, now, last_progress_time, last_emit, download_dir,
                   outdir>>

\* _run_job: the backoff sleep ends, _execute_download is called again
BackoffDone(r) ==
    /\ runs[r].pc = "backoff"
    /\ runs' = [runs EXCEPT ![r].pc = "exec", ![r].nExec = @ + 1, ![r].conv = FALSE]
    /\ out' = <<>>
    /\ locked' = ""
    /\ UNCHANGED <<jobs, submitted, pause_flag, cancel_flag, has_failed, pending_jobs,
                   active_threads, concurrent, queue_event, sched, ui, appended, calls,
                   failures, job_url, now, last_progress_time, last_emit, download_dir,
                   outdir>>

\* a finally block that leaves the job in the running set
CleanupKeepsEntry(r) ==
    /\ runs[r].pc = "finally"
    /\ runs' = [runs EXCEPT ![r].pc = "wake"]
    /\ out' = <<>>
    /\ locked' = ""
    /\ UNCHANGED <<jobs, submitted, pause_flag, cancel_flag, has_failed, pending_jobs,
                   active_threads, concurrent, queue_event, sched, ui, appended, calls,
                   failures, job_url, now, last_progress_time, last_emit, download_dir,
                   outdir>>

\* a finally block that pops the running-set entry without taking the lock
CleanupUnlocked(r) ==
    /\ runs[r].pc = "finally"
    /\ active_threads' = [active_threads EXCEPT ![runs[r].job] = 0]
    /\ runs' = [runs EXCEPT ![r].pc = "wake"]
    /\ out' = <<>>
    /\ locked' = ""
    /\ UNCHANGED <<jobs, submitted, pause_flag, cancel_flag, has_failed, pending_jobs,
                   concurrent, queue_event, sched, ui, appended, calls, failures,
                   job_url, now, last_progress_time, last_emit, download_dir, outdir>>

\* _run_job, finally: `self._active_threads.pop(job.id, None)` under the lock
Cleanup(r) ==
    /\ runs[r].pc = "finally"
    /\ active_threads' = [active_threads EXCEPT ![runs[r].job] = 0]
    /\ runs' = [runs EXCEPT ![r].pc = "wake"]
    /\ out' = <<>>
    /\ locked' = "pool"
    /\ UNCHANGED <<jobs, submitted, pause_flag, cancel_flag, has_failed, pending_jobs,
                   concurrent, queue_event, sched, ui, appended, calls, failures,
                   job_url, now, last_progress_time, last_emit, download_dir, outdir>>

\* a finally block that returns without setting the wake signal
WakeSchedulerSilent(r) ==
    /\ runs[r].pc = "wake"
    /\ runs' = [runs EXCEPT ![r] = [NewRun(@.job) EXCEPT !.pc = "done",
                                        !.nDone = runs[r].nDone, !.nErr = runs[r].nErr]]
    /\ out' = <<>>
    /\ locked' = ""
    /\ UNCHANGED <<jobs, submitted, pause_flag, cancel_flag, has_failed, pending_jobs,
                   active_threads, concurrent, queue_event, sched, ui, appended, calls,
                   failures, job_url, now, last_progress_time, last_emit, download_dir,
                   outdir>>

\* _run_job, finally: `self._queue_event.set()`; the runnable returns and its
\* locals are gone
WakeScheduler(r) ==
    /\ runs[r].pc = "wake"
    /\ queue_event' = TRUE
    /\ runs' = [runs EXCEPT ![r] = [NewRun(@.job) EXCEPT !.pc = "done",
                                        !.nDone = runs[r].nDone, !.nErr = runs[r].nErr]]
    /\ out' = <<>>
    /\ locked' = ""
    /\ UNCHANGED <<jobs, submitted, pause_flag, cancel_flag, has_failed, pending_jobs,
                   active_threads, concurrent, sched, ui, appended, calls, failures,
                   job_url, now, last_progress_time, last_emit, download_dir, outdir>>

\* ------------------------------------------------------------------ clock
\* time.time() advances by one tick
Tick ==
    /\ now < 2 * Throttle + MaxTicks
    /\ now' = now + 1
    /\ out' = <<>>
    /\ locked' = ""
    /\ UNCHANGED <<jobs, submitted, pause_flag, cancel_flag, has_failed, pending_jobs,
                   active_threads, concurrent, queue_event, sched, ui, runs, appended,
                   calls, failures, job_url, last_progress_time, last_emit, download_dir,
                   outdir>>

\* ---------------------------------------------------------- specifications
\* the events the pipeline passes to _on_hook: "downloading" events with their
\* byte counts (0: the key is absent or None), and the "finished" event
ProgressEvents ==
    [status : {"downloading"}, downloaded_bytes : {0, 1, 3}, total_bytes : {0, 2},
     total_bytes_estimate : {0, 2}]
    \cup [status : {"finished"}, downloaded_bytes : {2}, total_bytes : {2},
          total_bytes_estimate : {0}]

\* the events of the specifications that leave progress reporting aside: a
\* "downloading" event changes nothing but _last_progress_time and the progress
\* shown, so the pipeline's calls of the hook are those with the "finished" event
HookEvents == {d \in ProgressEvents : d.status = "finished"}

\* The whole program but for set_download_dir (SpecOne has it): every other call
\* of the caller, the queue processor, the runners.
UiNext ==
    \/ \E item \in ItemsWithUrl : CreateJob(item)
    \/ \E j \in JobIds : Submit(j)
    \/ SubmitSetEvent
    \/ \E j \in JobIds : Pause(j)
    \/ \E j \in JobIds : Resume(j)
    \/ ResumeAppend
    \/ \E j \in JobIds : Cancel(j)
    \/ \E j \in JobIds : Retry(j)
    \/ \E n \in 0..MaxConc : SetConcurrency(n)

SchedNext ==
    \/ SchedPop
    \/ SchedNothing
    \/ SchedStartJob
    \/ SchedWaitSignalled
    \/ SchedWaitTimeout
    \/ SchedClear

RunnerNext ==
    \E r \in RunIds :
        \/ RunStart(r)
        \/ \E d \in HookEvents : HookCall(r, d)
        \/ \E d \in HookEvents : PausePoll(r, d)
        \/ \E e \in Errors : failures < MaxFailures /\ PipelineFails(r, e)
        \/ PipelineSucceeds(r)
        \/ BackoffDone(r)
        \/ Cleanup(r)
        \/ WakeScheduler(r)

Next == UiNext \/ SchedNext \/ RunnerNext

Spec == Init /\ [][Next]_vars

\* One job, submitted once; the caller pauses, resumes and cancels it while it
\* runs; the pipeline fails as often as it likes.
NextRun ==
    \/ \E item \in ItemsWithUrl : jobs = {} /\ CreateJob(item)
    \/ \E j \in JobIds : Submit(j)
    \/ SubmitSetEvent
    \/ \E j \in JobIds : Pause(j)
    \/ \E j \in JobIds : ~ResumeResubmits(j) /\ Resume(j)
    \/ \E j \in JobIds : Cancel(j)
    \/ SchedNext
    \/ \E r \in RunIds :
        \/ RunStart(r)
        \/ \E d \in HookEvents : HookCall(r, d)
        \/ \E d \in HookEvents : PausePoll(r, d)
        \/ \E e \in Errors : PipelineFails(r, e)
        \/ PipelineSucceeds(r)
        \/ BackoffDone(r)
        \/ Cleanup(r)
        \/ WakeScheduler(r)

SpecRun == Init /\ [][NextRun]_vars

\* The concurrency limit held fixed; the caller creates jobs and submits each
\* once, and makes no other call.
NextSubmit ==
    \/ \E item \in ItemsWithUrl : CreateJob(item)
    \/ \E j \in JobIds : Submit(j)
    \/ SubmitSetEvent
    \/ SchedNext
    \/ \E r \in RunIds :
        \/ RunStart(r)
        \/ \E d \in HookEvents : HookCall(r, d)
        \/ \E e \in Errors : failures < MaxFailures /\ PipelineFails(r, e)
        \/ PipelineSucceeds(r)
        \/ BackoffDone(r)
        \/ Cleanup(r)
        \/ WakeScheduler(r)

SpecSubmit == Init /\ [][NextSubmit]_vars

\* The concurrency limit held fixed; the caller submits each job once and pauses,
\* resumes and cancels jobs, pending or running; it resumes a job only once the
\* job is in the running set, so resume() does not submit, and it retries no job.
NextSlot ==
    \/ \E item \in ItemsWithUrl : CreateJob(item)
    \/ \E j \in JobIds : Submit(j)
    \/ SubmitSetEvent
    \/ \E j \in jobs : Pause(j)
    \/ \E j \in jobs : ~ResumeResubmits(j) /\ Resume(j)
    \/ \E j \in jobs : Cancel(j)
    \/ SchedNext
    \/ \E r \in RunIds :
        \/ RunStart(r)
        \/ \E d \in HookEvents : HookCall(r, d)
        \/ \E d \in HookEvents : PausePoll(r, d)
        \/ \E e \in Errors : failures < MaxFailures /\ PipelineFails(r, e)
        \/ PipelineSucceeds(r)
        \/ BackoffDone(r)
        \/ Cleanup(r)
        \/ WakeScheduler(r)

SpecSlot == Init /\ [][NextSlot]_vars

\* One job's run, its cleanup weakly fair: a pool thread that has reached the
\* finally block of _run_job runs it.
FairRun ==
    /\ SpecRun
    /\ \A r \in 1..MaxAppends : WF_vars(r \in RunIds /\ Cleanup(r))

\* One job and its progress reporting: the clock runs, the pipeline reports its
\* progress with every event of ProgressEvents, the caller pauses and resumes the
\* job while it runs and retries it after a failure.
NextProgress ==
    \/ \E item \in ItemsWithUrl : jobs = {} /\ CreateJob(item)
    \/ \E j \in JobIds : Submit(j)
    \/ SubmitSetEvent
    \/ \E j \in jobs : Pause(j)
    \/ \E j \in jobs : ~ResumeResubmits(j) /\ Resume(j)
    \/ \E j \in JobIds : Retry(j)
    \/ SchedNext
    \/ Tick
    \/ \E r \in RunIds :
        \/ RunStart(r)
        \/ \E d \in ProgressEvents : HookCall(r, d)
        \/ \E d \in ProgressEvents : PausePoll(r, d)
        \/ \E e \in Errors : failures < MaxFailures /\ PipelineFails(r, e)
        \/ PipelineSucceeds(r)
        \/ BackoffDone(r)
        \/ Cleanup(r)
        \/ WakeScheduler(r)

SpecProgress == Init /\ [][NextProgress]_vars

\* One job, the clock running, the callback raising internal errors and the
\* pipeline failing a bounded number of times, while the caller pauses, resumes
\* and cancels the job.
NextHook ==
    \/ \E item \in ItemsWithUrl : jobs = {} /\ CreateJob(item)
    \/ \E j \in JobIds : Submit(j)
    \/ SubmitSetEvent
    \/ \E j \in jobs : Pause(j)
    \/ \E j \in jobs : ~ResumeResubmits(j) /\ Resume(j)
    \/ \E j \in jobs : Cancel(j)
    \/ SchedNext
    \/ Tick
    \/ \E r \in RunIds :
        \/ RunStart(r)
        \/ \E d \in ProgressEvents : HookCall(r, d)
        \/ \E e \in HookErrors : HookError(r, e)
        \/ \E d \in ProgressEvents : PausePoll(r, d)
        \/ \E e \in Errors : failures < MaxFailures /\ PipelineFails(r, e)
        \/ PipelineSucceeds(r)
        \/ BackoffDone(r)
        \/ Cleanup(r)
        \/ WakeScheduler(r)

SpecHook == Init /\ [][NextHook]_vars

\* One job whose pipeline does not fail, the clock running: the caller pauses,
\* resumes and cancels the job while it runs. The pause loop of _on_hook is
\* weakly fair: its 0.25 s wait returns and the loop tests the flags again.
NextPause ==
    \/ \E item \in ItemsWithUrl : jobs = {} /\ CreateJob(item)
    \/ \E j \in JobIds : Submit(j)
    \/ SubmitSetEvent
    \/ \E j \in jobs : Pause(j)
    \/ \E j \in jobs : ~ResumeResubmits(j) /\ Resume(j)
    \/ \E j \in jobs : Cancel(j)
    \/ SchedNext
    \/ Tick
    \/ \E r \in RunIds :
        \/ RunStart(r)
        \/ \E d \in ProgressEvents : HookCall(r, d)
        \/ \E d \in ProgressEvents : PausePoll(r, d)
        \/ PipelineSucceeds(r)
        \/ Cleanup(r)
        \/ WakeScheduler(r)

FairPause ==
    /\ Init /\ [][NextPause]_vars
    /\ \A r \in 1..MaxAppends :
          WF_vars(r \in RunIds /\ \E d \in ProgressEvents : PausePoll(r, d))

\* The same program, the runner's finally block weakly fair as well: a runner that
\* has left the retry loop executes its cleanup.
FairCancel ==
    /\ Init /\ [][NextPause]_vars
    /\ \A r \in 1..MaxAppends :
          /\ WF_vars(r \in RunIds /\ \E d \in ProgressEvents : PausePoll(r, d))
          /\ WF_vars(r \in RunIds /\ Cleanup(r))

\* Job creation with every kind of item, submission and admission; no job runs.
NextCreate ==
    \/ \E item \in Items : CreateJob(item)
    \/ \E j \in JobIds : Submit(j)
    \/ SubmitSetEvent
    \/ SchedNext

SpecCreate == Init /\ [][NextCreate]_vars

\* One job whose pipeline does not fail; the caller calls pause, resume and cancel
\* with the job's id and with ids the Manager does not know.
NextCalls ==
    \/ \E item \in ItemsWithUrl : jobs = {} /\ CreateJob(item)
    \/ \E j \in JobIds : Submit(j)
    \/ SubmitSetEvent
    \/ \E j \in JobIds : Pause(j)
    \/ \E j \in JobIds : Resume(j)
    \/ ResumeAppend
    \/ \E j \in JobIds : Cancel(j)
    \/ SchedNext
    \/ \E r \in RunIds :
        \/ RunStart(r)
        \/ \E d \in HookEvents : HookCall(r, d)
        \/ \E d \in HookEvents : PausePoll(r, d)
        \/ PipelineSucceeds(r)
        \/ Cleanup(r)
        \/ WakeScheduler(r)

SpecCalls == Init /\ [][NextCalls]_vars

\* The caller creates jobs, submits each once and changes the concurrency limit.
NextConc ==
    \/ \E item \in ItemsWithUrl : CreateJob(item)
    \/ \E j \in JobIds : Submit(j)
    \/ SubmitSetEvent
    \/ \E n \in 0..MaxConc : SetConcurrency(n)
    \/ SchedNext
    \/ \E r \in RunIds :
        \/ RunStart(r)
        \/ \E d \in HookEvents : HookCall(r, d)
        \/ \E e \in Errors : failures < MaxFailures /\ PipelineFails(r, e)
        \/ PipelineSucceeds(r)
        \/ BackoffDone(r)
        \/ Cleanup(r)
        \/ WakeScheduler(r)

SpecConc == Init /\ [][NextConc]_vars

\* the "finished" event, the last one the pipeline passes to _on_hook
FinishedEvent == CHOOSE d \in HookEvents : TRUE

\* The same under weak fairness of the queue processor's loop and of the runners,
\* every run going on to its end: the pipeline reaches its "finished" event and
\* returns, the backoff sleep ends, the finally block runs.
FairConc ==
    /\ SpecConc
    /\ WF_vars(SchedNext)
    /\ \A r \in 1..MaxAppends :
          /\ WF_vars(r \in RunIds /\ RunStart(r))
          /\ WF_vars(r \in RunIds /\ HookCall(r, FinishedEvent))
          /\ WF_vars(r \in RunIds /\ PipelineSucceeds(r))
          /\ WF_vars(r \in RunIds /\ BackoffDone(r))
          /\ WF_vars(r \in RunIds /\ Cleanup(r))
          /\ WF_vars(r \in RunIds /\ WakeScheduler(r))

\* One job and every call the caller can make with it, the download directory
\* changed at any time.
NextOne ==
    \/ \E item \in ItemsWithUrl : jobs = {} /\ CreateJob(item)
    \/ \E j \in JobIds : Submit(j)
    \/ SubmitSetEvent
    \/ \E j \in jobs : Pause(j)
    \/ \E j \in jobs : Resume(j)
    \/ ResumeAppend
    \/ \E j \in jobs : Cancel(j)
    \/ \E j \in JobIds : Retry(j)
    \/ \E n \in 0..MaxConc : SetConcurrency(n)
    \/ \E path \in Paths : SetDownloadDir(path)
    \/ SchedNext
    \/ \E r \in RunIds :
        \/ RunStart(r)
        \/ \E d \in HookEvents : HookCall(r, d)
        \/ \E d \in HookEvents : PausePoll(r, d)
        \/ \E e \in Errors : failures < MaxFailures /\ PipelineFails(r, e)
        \/ PipelineSucceeds(r)
        \/ BackoffDone(r)
        \/ Cleanup(r)
        \/ WakeScheduler(r)

SpecOne == Init /\ [][NextOne]_vars

\* ------------------------------------------------------------------ claims
\* jobs with a runner dispatched and not yet cleaned up
LiveJobs == {runs[r].job : r \in {x \in RunIds :
                 runs[x].pc \in {"queued", "exec", "paused", "backoff", "finally"}}}

\* jobs a runner of which has run its cleanup
FinishedJobs == {runs[r].job : r \in {x \in RunIds : runs[x].pc \in {"wake", "done"}}}

PendingSet == {pending_jobs[i] : i \in DOMAIN pending_jobs}

\* the job the queue processor has popped and not yet recorded in _active_threads
BeingStarted == IF sched.pc = "start" THEN {sched.job} ELSE {}

\* C1, as stated: with the limit fixed, at most `concurrent` jobs are running and
\* every submitted job that is neither running nor finished is in the pending queue.
C1_Original ==
    /\ Cardinality(LiveJobs) <= concurrent
    /\ \A j \in submitted : j \notin LiveJobs \cup FinishedJobs => j \in PendingSet

\* C1, amended: with the limit fixed, at most `concurrent` jobs are running (the
\* running set holds exactly the jobs with a runner not yet cleaned up), and every
\* submitted job that is neither running nor finished is in the pending queue
\* or is the one job the queue processor has popped and is about to record.
C1_ConcurrencyBound ==
    /\ Cardinality(LiveJobs) <= concurrent
    /\ LiveJobs = ActiveIds
    /\ \A j \in submitted :
          j \notin LiveJobs \cup FinishedJobs => j \in PendingSet \cup BeingStarted

\* C1's case: as many jobs running as the limit allows, another one pending.
C1_Witness ==
    /\ Cardinality(LiveJobs) = concurrent
    /\ pending_jobs # <<>>
    /\ Cardinality(submitted) > concurrent

\* the jobs dispatched to a runner, in the order of dispatch
Dispatched == [r \in RunIds |-> runs[r].job]

\* the jobs appended to the pending queue, in the order of the appends
AppendedJobs == [i \in DOMAIN appended |-> appended[i].job]

\* C2: jobs are dispatched in exactly the order they were appended to the pending
\* queue: the appends so far are the dispatched jobs, then the job being started,
\* then the queue as it stands, so the next job admitted is the head of the queue.
C2_FifoAdmission ==
    AppendedJobs = Dispatched \o (IF sched.pc = "start" THEN <<sched.job>> ELSE <<>>)
                              \o pending_jobs

\* C2's case: two jobs dispatched one after the other, the second into the slot the
\* first one freed.
C2_Witness ==
    /\ Len(runs) >= 2
    /\ runs[1].job # runs[2].job
    /\ runs[1].pc \in {"wake", "done"}
    /\ concurrent = Len(runs) - 1

\* C3, as stated (its safety half): once a job's cancel flag is set, no runner of
\* the job emits done.
C3_NoDoneAfterCancel ==
    [][\A r \in RunIds :
          cancel_flag[runs[r].job] => runs'[r].nDone = runs[r].nDone]_vars

\* runners of job j inside the retry loop of _run_job
Executing(j) == {r \in RunIds : runs[r].job = j /\ runs[r].pc \in {"exec", "paused", "backoff"}}

\* C4, as stated: at most one runner executes a given job.
C4_OneRunnerPerJob == \A j \in JobIds : Cardinality(Executing(j)) <= 1

RECURSIVE SumTerminals(_, _)
\* done and error notifications the first n runs have emitted for job j
SumTerminals(j, n) ==
    IF n = 0 THEN 0
    ELSE SumTerminals(j, n - 1)
         + (IF runs[n].job = j THEN runs[n].nDone + runs[n].nErr ELSE 0)

Terminals(j) == SumTerminals(j, Len(runs))

\* C5, as stated: a job the caller submitted once (and did not retry) emits at most
\* one terminal notification.
C5_OneTerminalPerJob ==
    \A j \in JobIds :
        (\A i \in DOMAIN appended : appended[i].job = j => appended[i].by # "retry")
            => Terminals(j) <= 1

\* C6: a run never calls the pipeline more than max_retries times, and a run whose
\* terminal notification is an error carrying a retryable error's message (every
\* call failed retryably, the job not cancelled) has called it exactly max_retries
\* times and has emitted that one error and no done.
C6_RetryCeiling ==
    \A r \in RunIds :
        /\ runs[r].nExec <= max_retries
        /\ runs[r].pc = "backoff" => runs[r].nErr = 0 /\ runs[r].nDone = 0
        /\ (runs[r].msg \in Errors /\ RetryableOf[runs[r].msg])
              => /\ runs[r].nExec = max_retries
                 /\ runs[r].nErr = 1
                 /\ runs[r].nDone = 0
                 /\ runs[r].pc \in {"finally", "wake"}

\* C6's case: three calls, each failed retryably, the error emitted.
C6_Witness ==
    \E r \in RunIds :
        /\ runs[r].msg = "HTTP Error 503"
        /\ runs[r].nExec = max_retries
        /\ runs[r].nErr = 1
        /\ ~cancel_flag[runs[r].job]

\* C7: whenever a runner of a job has emitted its terminal notification and not yet
\* run its cleanup, the job is eventually absent from the running set.
C7_CleanupFollows ==
    \A j \in JobIds :
        (\E r \in RunIds : runs[r].job = j /\ runs[r].pc = "finally")
            ~> (active_threads[j] = 0)

\* C7's case: a terminal notification emitted, the job not yet removed.
C7_Witness ==
    \E r \in RunIds :
        /\ runs[r].pc = "finally"
        /\ runs[r].nErr = 1
        /\ active_threads[runs[r].job] = r

\* C8, as stated: once a job's cancel flag is set it stays set, and a job that has
\* been dispatched is not dispatched again.
C8_NoRestartAfterCancel ==
    [][\A j \in JobIds :
          cancel_flag[j] =>
             /\ cancel_flag'[j]
             /\ (\E r \in RunIds : runs[r].job = j)
                   => ~(Len(runs') > Len(runs) /\ runs'[Len(runs')].job = j)]_vars

\* C9: a run that has emitted done has emitted it once and no error, has left the
\* retry loop, and its successful call of the pipeline was its last one (as many
\* calls as failed attempts before it, plus one).
C9_RetryThenSuccess ==
    \A r \in RunIds :
        runs[r].nDone >= 1 =>
            /\ runs[r].nDone = 1
            /\ runs[r].nErr = 0
            /\ runs[r].pc \in {"finally", "wake", "done"}
            /\ runs[r].pc # "done" => runs[r].nExec = runs[r].attempt + 1

\* C9's case: "503" on attempts 1 and 2, success on attempt 3.
C9_Witness ==
    \E r \in RunIds :
        /\ runs[r].nDone = 1
        /\ runs[r].last_error = "HTTP Error 503"
        /\ runs[r].nExec = max_retries

\* C10: a run whose last pipeline error is not retryable has left the retry loop
\* at that call, and has emitted exactly one error and no done; the error carries
\* that error's message unless the job is cancelled.
C10_NonRetryable ==
    \A r \in RunIds :
        (runs[r].last_error \in Errors /\ ~RetryableOf[runs[r].last_error]) =>
            /\ runs[r].pc \in {"finally", "wake"}
            /\ runs[r].nExec = runs[r].attempt + 1
            /\ runs[r].nErr = 1
            /\ runs[r].nDone = 0
            /\ ~cancel_flag[runs[r].job] => runs[r].msg = runs[r].last_error

\* C10's case: a non-retryable error on the first attempt, two attempts left.
C10_Witness ==
    \E r \in RunIds :
        /\ runs[r].last_error = "Unsupported URL"
        /\ runs[r].msg = "Unsupported URL"
        /\ runs[r].nExec = 1
        /\ runs[r].nErr = 1

\* the percentages of the progress notifications of job j among the notifications s
ProgressOf(s, j) ==
    {s[i].pct : i \in {k \in DOMAIN s : s[k].sig = "progress" /\ s[k].job = j}}

\* C11, as stated: every progress percentage emitted for a job lies in [0,100].
C11_ProgressRange ==
    \A j \in JobIds : \A pct \in ProgressOf(out, j) : pct \in 0..100

\* C12, as stated: a progress notification of a job comes at least the throttle
\* interval after the job's previous progress notification.
C12_ProgressThrottle ==
    [][\A j \in JobIds :
          (ProgressOf(out', j) # {} /\ last_emit[j] # -1)
              => now - last_emit[j] >= Throttle]_vars

\* C13: while a job's pause flag is set (and the job is not cancelled), no step
\* of a run of it that is in the pipeline emits a progress notification, and a
\* callback blocked in the pause loop stays blocked; it leaves the loop only with
\* the flag cleared; and once the flag is cleared, the blocked callback
\* eventually proceeds (or the job is paused again).
C13_PauseStopsProgress ==
    /\ [][\A r \in RunIds :
             /\ (runs[r].pc \in {"exec", "paused"} /\ pause_flag[runs[r].job]
                    /\ ~cancel_flag[runs[r].job])
                   => /\ ProgressOf(out', runs[r].job) = {}
                      /\ runs[r].pc = "paused" => runs'[r].pc = "paused"
             /\ (runs[r].pc = "paused" /\ runs'[r].pc = "exec")
                   => ~pause_flag[runs[r].job]]_vars
    /\ \A r \in 1..MaxAppends :
          (r \in RunIds /\ runs[r].pc = "paused" /\ ~pause_flag[runs[r].job])
             ~> (r \in RunIds /\ (runs[r].pc # "paused" \/ pause_flag[runs[r].job]))

\* C13's case: a callback blocked in the pause loop, the flag cleared by resume().
C13_Witness ==
    \E r \in RunIds :
        /\ runs[r].pc = "paused"
        /\ ~pause_flag[runs[r].job]
        /\ out = <<Status(runs[r].job, "Resumed")>>

\* C14, as stated: a request with neither webpage_url nor url is rejected, so no
\* job without a URL is registered in the job map.
C14_CreateJobRejects == \A j \in jobs : job_url[j] # ""

\* C15: a resume(id) call on a known job clears its pause flag and leaves the
\* pending queue as it is; it goes on to append the job (the submit() it calls)
\* exactly when the pause flag was set at the call and the id was not in the
\* running set, and otherwise returns; the append it goes on to make adds the job
\* at the tail of the queue.
C15_ResumeResubmits ==
    [][/\ \A j \in jobs :
            Resume(j) =>
               /\ ~pause_flag'[j]
               /\ pending_jobs' = pending_jobs
               /\ IF pause_flag[j] /\ j \notin ActiveIds
                  THEN ui' = [pc |-> "append", job |-> j]
                  ELSE ui' = UiIdle
       /\ (ui.pc = "append" /\ ui' # ui)
            => pending_jobs' = Append(pending_jobs, ui.job)]_vars

\* C15's case: resume() of a paused job that is not in the running set, about to
\* append it.
C15_Witness ==
    /\ ui.pc = "append"
    /\ ~pause_flag[ui.job]
    /\ ui.job \notin ActiveIds

\* what pause, resume and cancel leave alone whatever the id
CallFrame == <<jobs, job_url, submitted, pending_jobs, active_threads, concurrent,
               queue_event, sched, runs, appended, has_failed, last_progress_time>>

\* C16: with an unknown id, pause, resume and cancel change nothing and emit
\* nothing; with a known id, pause and cancel set the job's flag, emit one status
\* and leave the pending queue, the running set and the job map as they are.
C16_OnlySignal ==
    [][\A j \in JobIds :
          /\ (j \notin jobs /\ (Pause(j) \/ Resume(j) \/ Cancel(j)))
                => /\ out' = <<>>
                   /\ UNCHANGED <<CallFrame, pause_flag, cancel_flag, ui>>
          /\ (j \in jobs /\ Pause(j))
                => /\ pause_flag' = [pause_flag EXCEPT ![j] = TRUE]
                   /\ out' = <<Status(j, "Paused")>>
                   /\ UNCHANGED <<CallFrame, cancel_flag, ui>>
          /\ (j \in jobs /\ Cancel(j))
                => /\ cancel_flag' = [cancel_flag EXCEPT ![j] = TRUE]
                   /\ out' = <<Status(j, "Canceled")>>
                   /\ UNCHANGED <<CallFrame, pause_flag, ui>>]_vars

\* C16's case: a job cancelled while pending, still in the queue.
C16_Witness ==
    \E j \in jobs :
        /\ cancel_flag[j]
        /\ j \in PendingSet
        /\ out = <<Status(j, "Canceled")>>

\* C17: the limit is at least 1 in every state; set_concurrency(n) sets it to n,
\* or to 1 when n < 1, and leaves the running set, the runners and the pending
\* queue as they are; and the queue processor takes a job off the queue only when
\* the running set is smaller than the limit then in force.
C17_SetConcurrency ==
    /\ concurrent >= 1
    /\ [][/\ concurrent' >= 1
          /\ \A n \in 0..MaxConc :
                SetConcurrency(n) =>
                   /\ concurrent' = IF n < 1 THEN 1 ELSE n
                   /\ UNCHANGED <<active_threads, runs, pending_jobs, sched>>
          /\ concurrent' # concurrent
                => UNCHANGED <<active_threads, runs, pending_jobs, sched>>
          /\ Len(pending_jobs') < Len(pending_jobs)
                => Cardinality(ActiveIds) < concurrent]_vars

\* C17's case: the limit lowered below the number of running jobs, which keep
\* running.
C17_Witness ==
    /\ Cardinality(ActiveIds) > concurrent
    /\ \A j \in ActiveIds : \E r \in RunIds : runs[r].job = j /\ runs[r].pc = "exec"

\* C18, as stated: once a job's cancel flag is set, a run of it that has called
\* the pipeline does not call it again.
C18_NoRetryAfterCancel ==
    [][\A r \in RunIds :
          (cancel_flag[runs[r].job] /\ runs[r].nExec >= 1)
              => runs'[r].nExec <= runs[r].nExec]_vars

\* the terminal notifications a run has emitted
RunTerminals(r) == runs[r].nDone + runs[r].nErr

\* C19: a run leaves the retry loop with its one terminal notification emitted;
\* from there its only steps are the removal of the job from the running set,
\* then the setting of the wake signal, then nothing: each happens once, in that
\* order, after the terminal notification, on every exit path; and nothing else
\* removes a job from the running set.
C19_CleanupOnce ==
    /\ [](\A r \in RunIds :
            IF runs[r].pc \in {"finally", "wake", "done"}
            THEN RunTerminals(r) = 1
            ELSE RunTerminals(r) = 0)
    /\ [][/\ \A r \in RunIds :
              /\ runs[r].pc = "finally"
                    => \/ runs'[r] = runs[r]
                       \/ /\ runs'[r].pc = "wake"
                          /\ active_threads'[runs[r].job] = 0
              /\ runs[r].pc = "wake"
                    => \/ runs'[r] = runs[r]
                       \/ /\ runs'[r].pc = "done"
                          /\ queue_event'
              /\ runs[r].pc = "done" => runs'[r] = runs[r]
              /\ runs'[r].pc = "wake" => runs[r].pc \in {"finally", "wake"}
              /\ runs'[r].pc = "done" => runs[r].pc \in {"wake", "done"}
          /\ \A j \in JobIds :
              (active_threads[j] # 0 /\ active_threads'[j] = 0)
                 => \E r \in RunIds : /\ runs[r].job = j
                                      /\ runs[r].pc = "finally"
                                      /\ runs'[r].pc = "wake"]_vars

\* C19's case: a cancelled run that has emitted its error, removed the job from
\* the running set and set the wake signal.
C19_Witness ==
    \E r \in RunIds :
        /\ runs[r].pc = "done"
        /\ runs[r].nErr = 1
        /\ cancel_flag[runs[r].job]
        /\ active_threads[runs[r].job] = 0
        /\ queue_event

\* C20: under weak fairness of the queue processor and of the runners, every run
\* ending, a job in the pending queue is eventually dispatched to a runner.
C20_EventuallyAdmitted ==
    \A j \in JobIds :
        (j \in PendingSet) ~> (\E r \in RunIds : runs[r].job = j)

\* C20's case: a job pending, the queue processor in its wait with the wake signal
\* cleared, and capacity that appeared without a signal (set_concurrency raised
\* the limit above the number of running jobs).
C20_Witness ==
    /\ sched.pc = "wait"
    /\ ~queue_event
    /\ pending_jobs # <<>>
    /\ ActiveIds # {}
    /\ Cardinality(ActiveIds) < concurrent
    /\ \A r \in RunIds : runs[r].pc = "exec"

\* the queue processor blocked in its wait with the wake signal cleared, a job
\* pending and the running set below the limit
AsleepWithWork ==
    /\ sched.pc = "wait"
    /\ ~queue_event
    /\ pending_jobs # <<>>
    /\ Cardinality(ActiveIds) < concurrent

\* C21, as stated: with the limit unchanged, the queue processor is never in its
\* wait with the signal cleared while a job is pending and a slot is free.
C21_Original == ~AsleepWithWork

\* C21, amended: with the limit unchanged, the queue processor is in that
\* situation only while the submit() that appended a job, or the runner that
\* freed a slot, has made its update and is about to set the signal.
C21_NoMissedWakeup ==
    AsleepWithWork => (ui.pc = "set" \/ \E r \in RunIds : runs[r].pc = "wake")

\* C21's case: the queue processor in its wait, a job pending, a slot free, and
\* the signal set for it.
C21_Witness ==
    /\ sched.pc = "wait"
    /\ queue_event
    /\ pending_jobs # <<>>
    /\ Cardinality(ActiveIds) < concurrent
    /\ ui.pc = "idle"

\* C22: a step that changes the pending queue, the running set, the job map, the
\* concurrency limit or the download directory is made by a thread holding the
\* lock; a step a runner makes from inside the pipeline call, the backoff sleep
\* or the pause poll, and the step that ends the queue processor's wait, take no
\* lock; and a thread takes the lock only in a step of its own, each such step
\* being one `with self._lock:` block, entered without the lock.
C22_LockDiscipline ==
    [][/\ (\/ pending_jobs' # pending_jobs
           \/ active_threads' # active_threads
           \/ jobs' # jobs
           \/ concurrent' # concurrent
           \/ download_dir' # download_dir) => locked' # ""
       /\ \A r \in RunIds :
             (runs[r].pc \in {"exec", "backoff", "paused"} /\ runs'[r] # runs[r])
                => locked' = ""
       /\ (sched.pc = "wait" /\ sched' # sched) => locked' = ""
       /\ locked' = "main" => (ui' # ui \/ calls' # calls \/ jobs' # jobs)
       /\ locked' = "queue" => sched' # sched
       /\ locked' = "pool"
             => \E r \in RunIds : runs[r].pc = "finally" /\ runs'[r].pc = "wake"]_vars

\* C22's case: the runner has removed its job from the running set under the lock
\* while the queue processor is in its wait.
C22_Witness ==
    /\ locked = "pool"
    /\ sched.pc = "wait"
    /\ \E r \in RunIds : runs[r].pc = "wake" /\ active_threads[runs[r].job] = 0

\* C23, as stated: when a job is started, the directory its run writes to
\* (job.outdir) is the download directory the Manager has at that moment.
C23_OutdirAtStart ==
    [][Len(runs') > Len(runs)
          => outdir[runs'[Len(runs')].job] = download_dir]_vars

\* the notifications s hold the "Paused..." status of job j
PausedStatusIn(s, j) == \E i \in DOMAIN s : s[i] = Status(j, "Paused...")

\* C24, as stated: a callback that is already blocked in the pause poll, its
\* "Paused..." status emitted on entering it, does not emit that status again.
C24_PausedOnce ==
    [][\A r \in RunIds :
          (runs[r].pc = "paused" /\ runs'[r].pc = "paused")
              => ~PausedStatusIn(out', runs[r].job)]_vars

\* C25: a step of a callback blocked in the pause poll with the cancel flag set
\* and the pause flag still set ends the run: it emits error("Canceled by user"),
\* calls _execute_download no further time and leaves the pause flag set; a run
\* that has ended starts no further attempt; the blocked callback eventually
\* takes that step (unless the job is resumed first), and the job then
\* eventually leaves the running set.
C25_CancelWhilePaused ==
    /\ [][\A r \in RunIds :
             /\ (/\ runs[r].pc = "paused"
                 /\ pause_flag[runs[r].job]
                 /\ cancel_flag[runs[r].job]
                 /\ runs'[r] # runs[r])
                   => /\ runs'[r].pc = "finally"
                      /\ runs'[r].msg = CanceledByUser
                      /\ runs'[r].nExec = runs[r].nExec
                      /\ \E i \in DOMAIN out' : out'[i] = Error(runs[r].job, CanceledByUser)
                      /\ pause_flag'[runs[r].job]
             /\ runs[r].pc \in {"finally", "wake", "done"}
                   => runs'[r].pc \in {"finally", "wake", "done"}]_vars
    /\ \A r \in 1..MaxAppends :
          /\ (r \in RunIds /\ runs[r].pc = "paused" /\ pause_flag[runs[r].job]
                  /\ cancel_flag[runs[r].job])
                ~> (r \in RunIds
                      /\ ((runs[r].pc = "finally" /\ runs[r].msg = CanceledByUser)
                             \/ ~pause_flag[runs[r].job]))
          /\ (r \in RunIds /\ runs[r].pc = "finally" /\ runs[r].msg = CanceledByUser)
                ~> (r \in RunIds /\ active_threads[runs[r].job] = 0)

\* C25's case: the pause poll has raised on the cancel flag, the pause flag still
\* set, the runner not yet in its cleanup.
C25_Witness ==
    \E r \in RunIds :
        /\ runs[r].pc = "finally"
        /\ pause_flag[runs[r].job]
        /\ out = <<Status(runs[r].job, "Paused..."), Error(runs[r].job, CanceledByUser)>>

\* C26: an error raised inside the progress callback leaves it exactly when it is
\* the cancellation. A callback entered with the cancel flag set, and a pause
\* poll that finds it set, end the attempt: _run_job catches "User canceled" and
\* emits error("Canceled by user"). A callback whose formatting raises returns
\* normally: the run stays in the pipeline with its attempt, error and
\* notification counts unchanged, nothing is emitted, and the job is not marked
\* failed. No error that _run_job catches is one of the callback's own.
C26_HookErrorsSwallowed ==
    [][\A r \in RunIds :
          /\ (cancel_flag[runs[r].job] /\ \E d \in ProgressEvents : HookCall(r, d))
                => /\ runs'[r].pc = "finally"
                   /\ runs'[r].last_error = UserCanceled
                   /\ out' = <<Error(runs[r].job, CanceledByUser)>>
          /\ (\E e \in HookErrors : HookError(r, e))
                => /\ runs'[r] = runs[r]
                   /\ out' = <<>>
                   /\ has_failed' = has_failed
          /\ (runs'[r].nErr > runs[r].nErr \/ runs'[r].attempt > runs[r].attempt)
                => runs'[r].last_error \notin HookErrors]_vars

\* C26's case: the callback has swallowed an error of its own (the throttle stamp
\* is set, nothing was emitted at that time) and the run is still in the
\* pipeline, its first attempt not failed.
C26_Witness ==
    \E r \in RunIds :
        /\ runs[r].pc = "exec"
        /\ runs[r].attempt = 0
        /\ runs[r].last_error = ""
        /\ last_progress_time[runs[r].job] = now
        /\ last_emit[runs[r].job] < now
        /\ out = <<>>
        /\ locked = ""

\* the callback of run r gets past its cancel test and pause loop with event d
HookPasses(r, d) ==
    \/ /\ ~cancel_flag[runs[r].job] /\ ~pause_flag[runs[r].job]
       /\ HookCall(r, d)
    \/ /\ ~pause_flag[runs[r].job]
       /\ PausePoll(r, d)

PendingAt(j) == {i \in DOMAIN pending_jobs : pending_jobs[i] = j}

\* C28, as stated: a job the caller has submitted once and not resubmitted is
\* never in the pending queue twice, nor in the pending queue while it is in the
\* running set, whatever pause() and resume() calls are made on it.
C28_NoDuplicate ==
    \A j \in JobIds :
        (\A i \in DOMAIN appended : appended[i].job = j => appended[i].by # "retry")
            => /\ Cardinality(PendingAt(j)) <= 1
               /\ ~(PendingAt(j) # {} /\ active_threads[j] # 0)

\* C29, as stated: a job that resume() has not resubmitted, and that has a runner
\* inside the retry loop, is in the running set: an earlier runner's cleanup has
\* not removed the entry of the run that follows a retry.
C29_CleanupOwnRun ==
    \A j \in JobIds :
        (\A i \in DOMAIN appended : appended[i].job = j => appended[i].by # "resume")
            => (Executing(j) # {} => active_threads[j] # 0)

\* C30: a job with a callback blocked in the pause loop is in the running set,
\* under the entry of that run; the queue processor admits a job only when the
\* running set, paused jobs included, is below the limit, so it admits none while
\* as many jobs as the limit are paused; with a free slot and a non-empty queue
\* its next step pops the head of the queue whatever the head's pause flag, and
\* its step after that starts the popped job and records it in the running set.
C30_PausedKeepsSlot ==
    /\ [](\A r \in RunIds : runs[r].pc = "paused" => active_threads[runs[r].job] = r)
    /\ [][/\ (sched.pc = "check" /\ sched'.pc = "start")
              => /\ Cardinality(ActiveIds) < concurrent
                 /\ Cardinality(PausedJobs) < concurrent
                 /\ sched'.job = Head(pending_jobs)
          /\ (/\ sched.pc = "check" /\ sched' # sched
              /\ pending_jobs # <<>> /\ Cardinality(ActiveIds) < concurrent)
              => sched'.pc = "start"
          /\ (sched.pc = "start" /\ sched' # sched)
              => /\ Len(runs') = Len(runs) + 1
                 /\ runs'[Len(runs')].job = sched.job
                 /\ active_threads'[sched.job] = Len(runs')]_vars

\* C30's case: as many jobs as the limit allows are running and all of them are
\* blocked in the pause loop; a job whose pause flag is set is at the head of
\* the queue, and the queue processor has found no slot and waits.
C30_Witness ==
    /\ Cardinality(PausedJobs) = concurrent
    /\ PausedJobs = ActiveIds
    /\ pending_jobs # <<>>
    /\ pause_flag[Head(pending_jobs)]
    /\ sched.pc = "wait"

====
